---- MODULE Spec2Model ----
(***************************************************************************)
(* A model of AxographRawIO (neo/rawio/axographrawio.py): the decoding of  *)
(* an AxoGraph file by _parse_header, i.e. _do_the_heavy_lifting followed  *)
(* by the episodic heuristic and the multi-segment reshape.                *)
(*                                                                         *)
(* The byte stream is modelled by the values its fields decode to: every   *)
(* f.read_f(...) of the source is a choice (\E) from a small set, made in  *)
(* file order.  Floats are modelled by integers.  A raised exception ends  *)
(* the parse in pc = "failed" with the exception's class in error; what    *)
(* had been assigned to the object before the raise stays assigned.        *)
(***************************************************************************)
EXTENDS Integers, Sequences, FiniteSets, TLC

VARIABLES
    pc,                       \* position of _parse_header
    error,                    \* class of the exception that ended the parse
    log,                      \* the heuristic's last logger.debug verdict
    force_single_segment,     \* constructor argument
    header_id,                \* the 4-byte file tag
    format_ver,               \* format version read after the tag
    n_cols,                   \* number of columns read after the version
    i,                        \* index of the column loop
    columns,                  \* the fields the stream held for each column read
    time_axis,                \* <<t_start, sampling_period>>, <<>> while unbound
    sigs_memmap,              \* the arrays kept by the column loop
    sig_channels,             \* the channel_info tuples kept by the column loop
    rest_of_the_file,         \* number of bytes left after the legacy columns
    n_traces,                 \* trace count read from the stream
    trace_header_info_list,   \* trace number -> trace header
    n_groups,                 \* group count read from the stream
    group_ids,                \* sorted distinct group ids of the traces
    group_header_info_list,   \* group id -> group header
    schema_versions_read,     \* the header versions read by f.read_f('l'), in order
    n_episodes,               \* primary episode count
    episode_counts,           \* every episode count read, in file order
    episode_arrays,           \* the booleans read after each count
    n_events,                 \* first event count read
    event_list,               \* the {'title', 'time'} dicts of the events
    n_epochs,                 \* epoch count read
    epoch_list,               \* the epoch_info dicts
    annotations,              \* the bound ones of the locals raw_event_timestamps,
                              \* event_labels, raw_epoch_timestamps,
                              \* raw_epoch_durations, epoch_labels
    header,                   \* self.header
    info,                     \* self.info
    raw_signals,              \* self._raw_signals
    self_time,                \* <<self._t_start, self._sampling_period>>
    raw_event_epoch_timestamps,   \* self._raw_event_epoch_timestamps
    raw_event_epoch_durations,    \* self._raw_event_epoch_durations
    event_epoch_labels,           \* self._event_epoch_labels
    call,                     \* the accessor last called, with its arguments
    result,                   \* what it returned, or the exception it raised
    fid,                      \* StructFile: bytes between the position and the end
    fmts,                     \* StructFile: the formats still to be read
    data                      \* StructFile: the fields decoded so far

streamVars == <<header_id, format_ver, n_cols>>
columnVars == <<i, columns, time_axis, sigs_memmap, sig_channels>>
legacyVars == <<rest_of_the_file>>
traceVars  == <<n_traces, trace_header_info_list>>
groupVars  == <<n_groups, group_ids, group_header_info_list>>
episodeVars == <<n_episodes, episode_counts, episode_arrays>>
eventVars  == <<n_events, event_list, n_epochs, epoch_list, annotations>>
objectVars == <<header, info, raw_signals, self_time, raw_event_epoch_timestamps,
                raw_event_epoch_durations, event_epoch_labels>>
callVars   == <<call, result>>
readerVars == <<fid, fmts, data>>

vars == <<pc, error, log, force_single_segment, streamVars, columnVars,
          legacyVars, traceVars, groupVars, schema_versions_read, episodeVars,
          eventVars, objectVars, callVars, readerVars>>

----------------------------------------------------------------------------
(* Bounds of the input space.                                              *)

MaxCols == 3
MaxPoints == 2
MaxTraces == 3
MaxEpisodes == 2
MaxGroupTraces == 2
MaxEvents == 2
MaxBytes == 24

(* Values the fields of the stream are drawn from.                         *)

Magics == {"AxGr", "axgx", "RIFF"}
Versions == {0, 1, 2, 3, 5, 6}
ColCounts == 0..MaxCols
PointCounts == {0, MaxPoints}
W(t) == [txt |-> t, paren |-> FALSE]     \* a word of a title
U(t) == [txt |-> t, paren |-> TRUE]      \* a word written "(t)"
Titles == {<<W("Current"), U("pA")>>, <<W("V")>>}
ColTypes == {4, 5, 6, 7, 9, 10, 99}
FirstValues == {0, 5}
Increments == {-1, 0, 2}
Gains == {1, 2}
Offsets == {0, 3}
NoColType == 0                           \* col_type = None, versions 1 and 2

EmptyDict == [k \in {} |-> 0]

----------------------------------------------------------------------------
(* Helpers of the column loop.                                             *)

\* line 290-295: units are a trailing parenthesized word of the title
SplitTitle(title) ==
    IF Len(title) > 0 /\ title[Len(title)].paren
    THEN [name  |-> SubSeq(title, 1, Len(title) - 1),
          units |-> title[Len(title)].txt]
    ELSE [name |-> title, units |-> ""]

\* 1/sampling_period, kept as the fraction
SamplingRate(period) == [num |-> 1, den |-> period]

\* line 433-435: channel_info, following _signal_channel_dtype
ChannelInfo(title, col, period, dtype, gain, offset) ==
    [name          |-> SplitTitle(title).name,
     id            |-> col,
     sampling_rate |-> SamplingRate(period),
     dtype         |-> dtype,
     units         |-> SplitTitle(title).units,
     gain          |-> gain,
     offset        |-> offset,
     group_id      |-> 0]

\* line 427: np.memmap(..., dtype, offset=f.tell(), shape=n_points); the
\* column index stands for the offset of the array in the file
Memmap(col, dtype, n_points) == [col |-> col, dtype |-> dtype, shape |-> n_points]

\* what the stream held for one column besides its title and array: the
\* point count, the type tag and the floats read before the array (series
\* first value and increment, gain, offset)
StreamColumn(n_points, col_type, title, floats) ==
    [n_points |-> n_points, col_type |-> col_type, floats |-> floats, nbytes |-> 0]

\* the bytes of one item of an array of the dtype
ItemSize(dtype) ==
    CASE dtype = "f" -> 4 [] dtype = "h" -> 2 [] dtype = "l" -> 4 [] dtype = "d" -> 8

\* line 319, 428: array.nbytes, by which f.seek(array.nbytes, 1) advances
NBytes(dtype, n_points) == n_points * ItemSize(dtype)

\* a column whose array was mapped and skipped
Sought(rec, dtype) == [rec EXCEPT !.nbytes = NBytes(dtype, rec.n_points)]

Fail(kind) == pc' = "failed" /\ error' = kind

Min(a, b) == IF a <= b THEN a ELSE b

----------------------------------------------------------------------------
(* _do_the_heavy_lifting: tag, version, columns.                           *)

\* KnownTag without the assert of line 224
KnownTagAny(tag) == tag = tag

\* line 224: the tags of an AxoGraph file
KnownTag(tag) == tag \in {"AxGr", "axgx"}

\* line 32, 214-224: self.header = {}; the 4-byte tag
ReadMagic(D) ==
    /\ pc = "magic"
    /\ \E tag \in D.magics :
          /\ header_id' = tag
          /\ IF KnownTag(tag)
             THEN pc' = "version" /\ error' = error
             ELSE Fail("AssertionError")
    /\ header' = EmptyDict
    /\ UNCHANGED <<log, force_single_segment, eventVars,
                   schema_versions_read, callVars, readerVars, format_ver,
                   n_cols, columnVars, legacyVars, traceVars, groupVars,
                   episodeVars, info, raw_signals, self_time,
                   raw_event_epoch_timestamps, raw_event_epoch_durations,
                   event_epoch_labels>>

\* VersionMatchesTag with the legacy assert as format_ver <= 2
VersionMatchesTagLoose(tag, ver) ==
    IF tag = "AxGr" THEN ver <= 2 ELSE ver >= 3

\* line 232-237: the two asserts
VersionMatchesTag(tag, ver) ==
    IF tag = "AxGr" THEN ver = 1 \/ ver = 2 ELSE ver >= 3

\* line 232-247: version and column count, checked against the tag
ReadVersion(D) ==
    /\ pc = "version"
    /\ \E ver \in D.versions, n \in D.ncols :
          /\ format_ver' = ver
          /\ n_cols' = n
          /\ IF ~KnownTag(header_id)
             THEN Fail("NotImplementedError")
             ELSE IF VersionMatchesTag(header_id, ver)
             THEN pc' = "columns" /\ error' = error
             ELSE Fail("AssertionError")
    /\ i' = 0
    /\ sigs_memmap' = <<>>
    /\ sig_channels' = <<>>
    /\ UNCHANGED <<log, force_single_segment, eventVars,
                   schema_versions_read, callVars, readerVars, header_id, columns, time_axis,
                   legacyVars, traceVars, groupVars, episodeVars, objectVars>>

\* line 321: np.median(np.diff(array)) of a regularly spaced array; nan (here
\* NaN) when the array has a single point
NaN == 0 - 999
MedianDiff(n_points, inc) == IF n_points >= 2 THEN inc ELSE NaN

\* ColumnKind with the offset of a scaled short dropped
ColumnKindNoOffset(ver, col_type, g, o) ==
    IF ver = 1 THEN [dtype |-> "f", gain |-> 1, offset |-> 0, floats |-> <<>>]
    ELSE IF ver = 2 THEN [dtype |-> "h", gain |-> g, offset |-> 0, floats |-> <<g>>]
    ELSE CASE col_type = 4  -> [dtype |-> "h", gain |-> 1, offset |-> 0, floats |-> <<>>]
           [] col_type = 5  -> [dtype |-> "l", gain |-> 1, offset |-> 0, floats |-> <<>>]
           [] col_type = 6  -> [dtype |-> "f", gain |-> 1, offset |-> 0, floats |-> <<>>]
           [] col_type = 7  -> [dtype |-> "d", gain |-> 1, offset |-> 0, floats |-> <<>>]
           [] col_type = 10 -> [dtype |-> "h", gain |-> g, offset |-> 0, floats |-> <<g, o>>]

\* line 303-425: the dtype letter and (gain, offset) of a signal column
\* from the version and the type tag; g and o are the floats in the stream
ColumnKind(ver, col_type, g, o) ==
    IF ver = 1 THEN [dtype |-> "f", gain |-> 1, offset |-> 0, floats |-> <<>>]
    ELSE IF ver = 2 THEN [dtype |-> "h", gain |-> g, offset |-> 0, floats |-> <<g>>]
    ELSE CASE col_type = 4  -> [dtype |-> "h", gain |-> 1, offset |-> 0, floats |-> <<>>]
           [] col_type = 5  -> [dtype |-> "l", gain |-> 1, offset |-> 0, floats |-> <<>>]
           [] col_type = 6  -> [dtype |-> "f", gain |-> 1, offset |-> 0, floats |-> <<>>]
           [] col_type = 7  -> [dtype |-> "d", gain |-> 1, offset |-> 0, floats |-> <<>>]
           [] col_type = 10 -> [dtype |-> "h", gain |-> g, offset |-> o, floats |-> <<g, o>>]

\* TimeColumn without the continue: the time column is kept as a channel
TimeColumnKept(rec, first_value, increment) ==
    /\ columns' = Append(columns, rec)
    /\ time_axis' = <<first_value, increment>>
    /\ i' = i + 1
    /\ sigs_memmap' = Append(sigs_memmap, Memmap(i, ">d", rec.n_points))
    /\ sig_channels' = Append(sig_channels,
           ChannelInfo(<<>>, i, increment, ">d", 1, 0))
    /\ UNCHANGED <<pc, error>>

\* line 331, 352, 383: the time column; nothing is kept for it
TimeColumn(rec, first_value, increment) ==
    /\ columns' = Append(columns, rec)
    /\ time_axis' = <<first_value, increment>>
    /\ i' = i + 1
    /\ UNCHANGED <<pc, error, sigs_memmap, sig_channels>>

\* line 427-441: the array is mapped, the channel described, both are kept;
\* 1/sampling_period raises UnboundLocalError while no time column was read
SignalColumn(rec, n_points, title, kind) ==
    /\ columns' = Append(columns, Sought(rec, kind.dtype))
    /\ IF time_axis = <<>>
       THEN /\ Fail("UnboundLocalError")
            /\ UNCHANGED <<i, time_axis, sigs_memmap, sig_channels>>
       ELSE /\ sigs_memmap' = Append(sigs_memmap, Memmap(i, ">" \o kind.dtype, n_points))
            /\ sig_channels' = Append(sig_channels,
                   ChannelInfo(title, i, time_axis[2], ">" \o kind.dtype,
                               kind.gain, kind.offset))
            /\ i' = i + 1
            /\ UNCHANGED <<pc, error, time_axis>>

\* FailColumn with the exception swallowed: the column is skipped
FailColumnSkips(rec, kind) ==
    /\ columns' = Append(columns, rec)
    /\ i' = i + 1
    /\ UNCHANGED <<pc, error, time_axis, sigs_memmap, sig_channels>>

\* line 387, 421 and the other raises of the column loop
FailColumn(rec, kind) ==
    /\ columns' = Append(columns, rec)
    /\ Fail(kind)
    /\ UNCHANGED <<i, time_axis, sigs_memmap, sig_channels>>

\* line 389-421: the type tags of an array column
SupportedColType(col_type) == col_type \in {4, 5, 6, 7, 10}

\* line 248-441: one iteration of the column loop
ReadColumn(D) ==
    /\ pc = "columns"
    /\ i < n_cols
    /\ \E n_points \in D.points, title \in D.titles, fv \in D.firsts,
          inc \in D.incs, g \in D.gains, o \in D.offsets :
          IF format_ver = 1
          THEN IF i = 0
               THEN IF n_points = 0
                    THEN FailColumn(Sought(StreamColumn(n_points, NoColType, title, <<>>),
                                           "f"),
                                    "IndexError")
                    ELSE TimeColumn(Sought(StreamColumn(n_points, NoColType, title,
                                               <<fv, MedianDiff(n_points, inc)>>), "f"),
                                    fv, MedianDiff(n_points, inc))
               ELSE SignalColumn(StreamColumn(n_points, NoColType, title, <<>>),
                                 n_points, title, ColumnKind(1, NoColType, g, o))
          ELSE IF format_ver = 2
          THEN IF i = 0
               THEN IF inc = 0
                    THEN FailColumn(StreamColumn(n_points, NoColType, title, <<fv, inc>>),
                                    "ZeroDivisionError")
                    ELSE TimeColumn(StreamColumn(n_points, NoColType, title, <<fv, inc>>),
                                    fv, inc)
               ELSE SignalColumn(StreamColumn(n_points, NoColType, title, <<g>>),
                                 n_points, title, ColumnKind(2, NoColType, g, o))
          ELSE IF format_ver < 3
          THEN FailColumn(StreamColumn(n_points, NoColType, title, <<>>),
                          "NotImplementedError")
          ELSE \E col_type \in D.tags :
               IF col_type = 9
               THEN IF inc = 0
                    THEN FailColumn(StreamColumn(n_points, col_type, title, <<fv, inc>>),
                                    "ZeroDivisionError")
                    ELSE IF i = 0
                    THEN TimeColumn(StreamColumn(n_points, col_type, title, <<fv, inc>>),
                                    fv, inc)
                    ELSE FailColumn(StreamColumn(n_points, col_type, title, <<fv, inc>>),
                                    "NotImplementedError")
               ELSE IF SupportedColType(col_type)
               THEN SignalColumn(StreamColumn(n_points, col_type, title,
                                     ColumnKind(format_ver, col_type, g, o).floats),
                                 n_points, title,
                                 ColumnKind(format_ver, col_type, g, o))
               ELSE FailColumn(StreamColumn(n_points, col_type, title, <<>>),
                               "NotImplementedError")
    /\ UNCHANGED <<log, force_single_segment, eventVars,
                   schema_versions_read, callVars, readerVars, streamVars, legacyVars, traceVars,
                   groupVars, episodeVars, objectVars>>

\* the five lists of events and epochs, empty
AnnotationNames ==
    {"raw_event_timestamps", "event_labels", "raw_epoch_timestamps",
     "raw_epoch_durations", "epoch_labels"}
NoAnnotations == [name \in AnnotationNames |-> <<>>]

\* TailIsEmpty without the assert of line 451
TailIgnored(rest) == rest = rest

\* line 450-451: rest_of_the_file == b''
TailIsEmpty(rest) == rest = 0

\* line 444-457: versions 1 and 2 hold nothing after the columns, and have
\* no events and no epochs; a version below 1 takes neither branch
ReadLegacyTail(D) ==
    /\ pc = "columns"
    /\ i >= n_cols
    /\ format_ver < 3
    /\ IF format_ver \in {1, 2}
       THEN \E rest \in D.rests :
               /\ rest_of_the_file' = rest
               /\ IF TailIsEmpty(rest)
                  THEN /\ annotations' = NoAnnotations
                       /\ pc' = "organize"
                       /\ error' = error
                  ELSE /\ Fail("AssertionError")
                       /\ UNCHANGED annotations
       ELSE pc' = "organize" /\ UNCHANGED <<error, rest_of_the_file, annotations>>
    /\ UNCHANGED <<log, force_single_segment, n_events, event_list, n_epochs,
                   epoch_list, schema_versions_read, callVars, readerVars,
                   streamVars, columnVars, traceVars, groupVars, episodeVars,
                   objectVars>>

----------------------------------------------------------------------------
(* _do_the_heavy_lifting, versions >= 3: traces, groups, episodes.         *)

\* line 459-486: comment, notes and the trace count
ReadTraceCount(D) ==
    /\ pc = "columns"
    /\ i >= n_cols
    /\ format_ver >= 3
    /\ \E n \in D.ntraces : n_traces' = n
    /\ trace_header_info_list' = <<>>
    /\ pc' = "traces"
    /\ UNCHANGED <<error, log, force_single_segment, eventVars,
                   schema_versions_read, callVars, readerVars, streamVars, columnVars,
                   legacyVars, groupVars, episodeVars, objectVars>>

\* HeaderVersions with the header version read whatever the format version
HeaderVersionsAlwaysRead(ver, inStream) == inStream

\* line 494-500, 535-541: the header versions a header can have: 1 below
\* format version 6, what the stream holds from format version 6 on
HeaderVersions(ver, inStream) == IF ver < 6 THEN {1} ELSE inStream

\* line 500, 541: f.read_f('l') is called from format version 6 on only
VersionReads(ver, v) == IF ver < 6 THEN <<>> ELSE <<v>>

\* line 502-507: the trace header descriptions
TraceHeaderVersions == {1, 2}

\* line 543-546: the group header descriptions
GroupHeaderVersions == {1}

\* line 488-515: one trace header; trace number -> header, numbered from 1
ReadTraceHeader(D) ==
    /\ pc = "traces"
    /\ Len(trace_header_info_list) < n_traces
    /\ \E v \in HeaderVersions(format_ver, D.trace_versions),
          y \in D.y_indexes[Len(trace_header_info_list) + 1],
          g \in D.group_ids :
          /\ schema_versions_read' =
                 schema_versions_read \o VersionReads(format_ver, v)
          /\ IF v \in TraceHeaderVersions
             THEN /\ trace_header_info_list' = Append(trace_header_info_list,
                         [trace_header_version    |-> v,
                          y_index                 |-> y,
                          group_id_for_this_trace |-> g])
                  /\ UNCHANGED <<pc, error>>
             ELSE /\ Fail("NotImplementedError")
                  /\ UNCHANGED trace_header_info_list
    /\ UNCHANGED <<log, force_single_segment, eventVars,
                   callVars, readerVars, streamVars, columnVars, legacyVars,
                   n_traces, groupVars, episodeVars, objectVars>>

\* the same elements, largest first
RECURSIVE DescendingSeq(_)
DescendingSeq(S) ==
    IF S = {} THEN <<>>
    ELSE LET m == CHOOSE x \in S : \A y \in S : x >= y
         IN  <<m>> \o DescendingSeq(S \ {m})

\* the elements of a finite set of integers in ascending order (np.sort)
RECURSIVE SortedSeq(_)
SortedSeq(S) ==
    IF S = {} THEN <<>>
    ELSE LET m == CHOOSE x \in S : \A y \in S : x <= y
         IN  <<m>> \o SortedSeq(S \ {m})

\* line 512, 521: the distinct group ids of the traces read
TraceGroupIds(traces) ==
    {traces[t].group_id_for_this_trace : t \in 1..Len(traces)}

\* line 520-528: the group count must be the number of distinct group ids
ReadGroupCount(D) ==
    /\ pc = "traces"
    /\ Len(trace_header_info_list) = n_traces
    /\ group_ids' = SortedSeq(TraceGroupIds(trace_header_info_list))
    /\ \E n \in D.ngroups :
          /\ n_groups' = n
          /\ IF n = Len(group_ids')
             THEN pc' = "groups" /\ error' = error
             ELSE Fail("AssertionError")
    /\ group_header_info_list' = EmptyDict
    /\ UNCHANGED <<log, force_single_segment, eventVars,
                   schema_versions_read, callVars, readerVars, streamVars, columnVars, legacyVars,
                   traceVars, episodeVars, objectVars>>

\* a dict with one more key
DictPut(d, k, v) == [x \in DOMAIN d \cup {k} |-> IF x = k THEN v ELSE d[x]]

\* line 529-553: one group header per distinct group id, ascending
ReadGroupHeader(D) ==
    /\ pc = "groups"
    /\ Cardinality(DOMAIN group_header_info_list) < Len(group_ids)
    /\ LET gid == group_ids[Cardinality(DOMAIN group_header_info_list) + 1]
       IN  \E v \in HeaderVersions(format_ver, D.group_versions) :
              /\ schema_versions_read' =
                     schema_versions_read \o VersionReads(format_ver, v)
              /\ IF v \in GroupHeaderVersions
                 THEN /\ group_header_info_list' =
                             DictPut(group_header_info_list, gid,
                                     [group_header_version |-> v])
                      /\ UNCHANGED <<pc, error>>
                 ELSE /\ Fail("NotImplementedError")
                      /\ UNCHANGED group_header_info_list
    /\ UNCHANGED <<log, force_single_segment, eventVars,
                   callVars, readerVars, streamVars, columnVars, legacyVars,
                   traceVars, n_groups, group_ids, episodeVars, objectVars>>

\* line 567-571: a count and the booleans read after it, one per range(count)
CountedArrays(counts, bools) ==
    UNION {{[n |-> c, bools |-> b] : b \in [1..c -> bools]} : c \in counts}

\* line 576-588: format version 5 alone holds the old unknown episode list
OldArrays(ver, counts, bools) ==
    IF ver = 5 THEN {<<a>> : a \in CountedArrays(counts, bools)} ELSE {<<>>}

\* line 570-571: i+1 for every boolean that is set
TrueIndexes(bools) == SortedSeq({k \in 1..Len(bools) : bools[k]})

\* PrimaryCount with n_episodes overwritten by every count read
LastCount(counts) == counts[Len(counts)]

\* line 567, 770: n_episodes is the first count read
PrimaryCount(counts) == counts[1]

\* line 556-612: the episodes in review, then the old unknown list (format
\* version 5), the unknown list and the masked episodes, each a count and
\* that many booleans
ReadEpisodes(D) ==
    /\ pc = "groups"
    /\ Cardinality(DOMAIN group_header_info_list) = Len(group_ids)
    /\ \E review \in CountedArrays(D.nepisodes, D.episode_bools),
          old \in OldArrays(format_ver, D.redundant, D.episode_bools),
          unknown \in CountedArrays(D.redundant, D.episode_bools),
          masked \in CountedArrays(D.redundant, D.episode_bools) :
          LET read == <<review>> \o old \o <<unknown, masked>>
          IN  /\ episode_counts' = [k \in 1..Len(read) |-> read[k].n]
              /\ episode_arrays' = [k \in 1..Len(read) |-> read[k].bools]
              /\ n_episodes' = PrimaryCount(episode_counts')
    /\ pc' = "settings"
    /\ UNCHANGED <<error, log, force_single_segment, eventVars,
                   schema_versions_read, callVars, readerVars, streamVars,
                   columnVars, legacyVars, traceVars, groupVars, objectVars>>

FONT_BOLD == 75
FONT_NOT_BOLD == 50

\* line 615-668: font settings (setting1 is FONT_BOLD or FONT_NOT_BOLD in
\* every font record, or the assert fails), axis settings
ReadSettings(D) ==
    /\ pc = "settings"
    /\ \E setting1 \in D.font_settings :
          IF setting1 \in {FONT_BOLD, FONT_NOT_BOLD}
          THEN pc' = "events" /\ error' = error
          ELSE Fail("AssertionError")
    /\ UNCHANGED <<log, force_single_segment, eventVars,
                   schema_versions_read, callVars, readerVars, streamVars,
                   columnVars, legacyVars, traceVars, groupVars, episodeVars,
                   objectVars>>

\* a number as the fraction num/den with den > 0: the quotient a / b of
\* python's true division
Quot(a, b) ==
    IF b < 0 THEN [num |-> 0 - a, den |-> 0 - b] ELSE [num |-> a, den |-> b]

\* the integer part of a fraction, towards zero
Truncated(q) ==
    IF q.num >= 0 THEN q.num \div q.den ELSE 0 - ((0 - q.num) \div q.den)

\* a dict with more keys
DictUpdate(d, e) ==
    [x \in DOMAIN d \cup DOMAIN e |-> IF x \in DOMAIN e THEN e[x] ELSE d[x]]

\* line 687-690: zip(event_labels, raw_event_timestamps); the time of an
\* event is event_index * sampling_period
EventList(labels, indexes, period) ==
    [k \in 1..Min(Len(labels), Len(indexes)) |->
        [title |-> labels[k], time |-> indexes[k] * period]]

\* line 671-693: the event counts, the event indexes, the event titles
ReadEvents(D) ==
    /\ pc = "events"
    /\ \E counts \in D.nevents :
       \E indexes \in [1..counts[2] -> D.event_indexes],
          labels \in [1..counts[3] -> D.event_titles] :
          /\ n_events' = counts[1]
          /\ annotations' = DictUpdate(annotations,
                 [raw_event_timestamps |-> [k \in 1..Len(indexes) |-> Quot(indexes[k], 1)],
                  event_labels         |-> labels])
          /\ IF Min(Len(labels), Len(indexes)) > 0 /\ time_axis = <<>>
             THEN /\ Fail("UnboundLocalError")
                  /\ UNCHANGED event_list
             ELSE /\ event_list' = EventList(labels, indexes,
                         IF time_axis = <<>> THEN 0 ELSE time_axis[2])
                  /\ pc' = "epochs"
                  /\ error' = error
    /\ UNCHANGED <<log, force_single_segment, n_epochs, epoch_list,
                   schema_versions_read, callVars, readerVars, streamVars,
                   columnVars, legacyVars, traceVars, groupVars, episodeVars,
                   objectVars>>

\* the raw start of an epoch as a whole number of samples
RawEpochSampleIndexes(epochs, period) ==
    [k \in 1..Len(epochs) |-> Quot(Truncated(Quot(epochs[k].t_start, period)), 1)]

\* line 717-723: the raw start and duration of an epoch are its start and
\* its length in seconds divided by the sampling period
RawEpochTimestamps(epochs, period) ==
    [k \in 1..Len(epochs) |-> Quot(epochs[k].t_start, period)]
RawEpochDurations(epochs, period) ==
    [k \in 1..Len(epochs) |-> Quot(epochs[k].t_stop - epochs[k].t_start, period)]
EpochLabels(epochs) == [k \in 1..Len(epochs) |-> epochs[k].title]

\* line 696-733: the epoch count, the epochs, the rest of the file
ReadEpochs(D) ==
    /\ pc = "epochs"
    /\ \E n \in D.nepochs :
       \E epochs \in [1..n -> D.epochs] :
          /\ n_epochs' = n
          /\ epoch_list' = epochs
          /\ IF Len(epochs) > 0 /\ time_axis = <<>>
             THEN /\ Fail("UnboundLocalError")
                  /\ annotations' = DictUpdate(annotations,
                         [raw_epoch_timestamps |-> <<>>,
                          raw_epoch_durations  |-> <<>>,
                          epoch_labels         |-> <<>>])
             ELSE /\ annotations' = DictUpdate(annotations,
                         [raw_epoch_timestamps |->
                              IF epochs = <<>> THEN <<>>
                              ELSE RawEpochTimestamps(epochs, time_axis[2]),
                          raw_epoch_durations  |->
                              IF epochs = <<>> THEN <<>>
                              ELSE RawEpochDurations(epochs, time_axis[2]),
                          epoch_labels         |-> EpochLabels(epochs)])
                  /\ pc' = "organize"
                  /\ error' = error
    /\ UNCHANGED <<log, force_single_segment, n_events, event_list,
                   schema_versions_read, callVars, readerVars, streamVars,
                   columnVars, legacyVars, traceVars, groupVars, episodeVars,
                   objectVars>>

----------------------------------------------------------------------------
(* _do_the_heavy_lifting: the header and the data are organized.           *)

\* line 738-745
OrganizedHeader(channels) ==
    [nb_block        |-> 1,
     nb_segment      |-> <<1>>,
     signal_channels |-> channels,
     event_channels  |-> <<[name |-> "AxoGraph Tags", type |-> "event"],
                           [name |-> "AxoGraph Intervals", type |-> "epoch"]>>,
     unit_channels   |-> <<>>]

\* line 758-786
OrganizedInfo ==
    IF format_ver >= 3
    THEN [header_id              |-> header_id,
          format_ver             |-> format_ver,
          t_start                |-> time_axis[1],
          sampling_period        |-> time_axis[2],
          n_cols                 |-> n_cols,
          n_traces               |-> n_traces,
          n_groups               |-> n_groups,
          n_episodes             |-> n_episodes,
          n_events               |-> n_events,
          n_epochs               |-> n_epochs,
          trace_header_info_list |-> trace_header_info_list,
          group_header_info_list |-> group_header_info_list,
          event_list             |-> event_list,
          epoch_list             |-> epoch_list,
          episodes_in_review     |-> TrueIndexes(episode_arrays[1]),
          masked_episodes        |-> TrueIndexes(episode_arrays[Len(episode_arrays)])]
    ELSE [header_id       |-> header_id,
          format_ver      |-> format_ver,
          t_start         |-> time_axis[1],
          sampling_period |-> time_axis[2]]

\* line 753: events have no durations
None == "None"

\* line 737-786: the header first, then the data; sampling_period is unbound
\* (UnboundLocalError at line 749) when the column loop read no time column
Organize ==
    /\ pc = "organize"
    /\ header' = OrganizedHeader(sig_channels)
    /\ IF time_axis = <<>>
       THEN /\ Fail("UnboundLocalError")
            /\ UNCHANGED <<info, raw_signals, self_time, raw_event_epoch_timestamps,
                           raw_event_epoch_durations, event_epoch_labels>>
       ELSE /\ self_time' = time_axis
            /\ raw_signals' = <<sigs_memmap>>
            /\ raw_event_epoch_timestamps' =
                   <<annotations.raw_event_timestamps, annotations.raw_epoch_timestamps>>
            /\ raw_event_epoch_durations' = <<None, annotations.raw_epoch_durations>>
            /\ event_epoch_labels' =
                   <<annotations.event_labels, annotations.epoch_labels>>
            /\ info' = OrganizedInfo
            /\ pc' = "heuristic"
            /\ error' = error
    /\ UNCHANGED <<log, force_single_segment, eventVars,
                   schema_versions_read, callVars, readerVars, streamVars,
                   columnVars, legacyVars, traceVars, groupVars, episodeVars>>

----------------------------------------------------------------------------
(* _safe_to_treat_as_episodic                                              *)

MsgOldFormat == "Cannot treat as episodic because old format contains insufficient metadata"
MsgGroupsDiffer == "Cannot treat as episodic because groups differ in number of traces"
MsgEpisodeCount == "Cannot treat as episodic because n_episodes does not match number of traces per group"
MsgHeterogeneous == "Cannot treat as episodic because some groups have heterogeneous signal parameters"
MsgCanTreat == "Can treat as episodic"

\* line 151-157: the y_index of every trace of the group, in trace order
RECURSIVE ColIndexes(_, _)
ColIndexes(traces, group_id) ==
    IF traces = <<>> THEN <<>>
    ELSE LET t == traces[Len(traces)]
             front == ColIndexes(SubSeq(traces, 1, Len(traces) - 1), group_id)
         IN  IF t.group_id_for_this_trace = group_id
             THEN Append(front, t.y_index)
             ELSE front

\* line 158
NTracesByGroup(inf) ==
    [g \in DOMAIN inf.group_header_info_list |->
        Len(ColIndexes(inf.trace_header_info_list, g))]

\* line 159, 166: np.unique of the per-group trace counts
UniqueCounts(inf) == {NTracesByGroup(inf)[g] : g \in DOMAIN NTracesByGroup(inf)}

\* line 175: the channel parameters without the id
DropId(ch) == [f \in DOMAIN ch \ {"id"} |-> ch[f]]

\* line 178: channels[np.array(col_indexes) - 1]; an index below 0 counts
\* from the end, an index outside -len..len-1 raises IndexError
IndexInRange(channels, y) == y - 1 >= 0 - Len(channels) /\ y - 1 < Len(channels)
ChannelAt(channels, y) ==
    IF y - 1 >= 0 THEN channels[y] ELSE channels[Len(channels) + y]

\* line 178-179: len(np.unique(signal_params_for_group)) == 1
GroupIsUniform(channels, col_indexes) ==
    Cardinality({DropId(ChannelAt(channels, col_indexes[k])) :
                     k \in 1..Len(col_indexes)}) = 1

\* line 132-188: the verdict, as the message logged before the return, or
\* the class of the exception raised
SafeToTreatAsEpisodic(inf, channels) ==
    IF inf.format_ver < 3 THEN MsgOldFormat
    ELSE IF Cardinality(UniqueCounts(inf)) # 1 THEN MsgGroupsDiffer
    ELSE IF UniqueCounts(inf) # {inf.n_episodes} THEN MsgEpisodeCount
    ELSE LET cols == [g \in DOMAIN inf.group_header_info_list |->
                         ColIndexes(inf.trace_header_info_list, g)]
         IN  IF \E g \in DOMAIN cols : \E k \in 1..Len(cols[g]) :
                    ~IndexInRange(channels, cols[g][k])
             THEN "IndexError"
             ELSE IF \E g \in DOMAIN cols : ~GroupIsUniform(channels, cols[g])
             THEN MsgHeterogeneous
             ELSE MsgCanTreat

\* Heuristic with the reshape entered whatever the verdict
HeuristicConvertsAnyway ==
    /\ pc = "heuristic"
    /\ IF force_single_segment
       THEN /\ pc' = "annotate"
            /\ UNCHANGED <<log, error>>
       ELSE LET verdict == SafeToTreatAsEpisodic(info, header.signal_channels)
            IN  IF verdict = "IndexError"
                THEN Fail("IndexError") /\ UNCHANGED log
                ELSE /\ log' = verdict
                     /\ pc' = IF info.format_ver >= 3 THEN "convert" ELSE "annotate"
                     /\ error' = error
    /\ UNCHANGED <<force_single_segment, eventVars,
                   schema_versions_read, callVars, readerVars, streamVars, columnVars, legacyVars,
                   traceVars, groupVars, episodeVars, objectVars>>

\* Heuristic without a look at force_single_segment
HeuristicIgnoresForce ==
    /\ pc = "heuristic"
    /\ LET verdict == SafeToTreatAsEpisodic(info, header.signal_channels)
       IN  IF verdict = "IndexError"
           THEN Fail("IndexError") /\ UNCHANGED log
           ELSE /\ log' = verdict
                /\ pc' = IF verdict = MsgCanTreat THEN "convert" ELSE "annotate"
                /\ error' = error
    /\ UNCHANGED <<force_single_segment, eventVars,
                   schema_versions_read, callVars, readerVars, streamVars, columnVars, legacyVars,
                   traceVars, groupVars, episodeVars, objectVars>>

\* line 36-40: the heuristic is evaluated unless force_single_segment, and
\* the reshape follows its acceptance
Heuristic ==
    /\ pc = "heuristic"
    /\ IF force_single_segment
       THEN /\ pc' = "annotate"
            /\ UNCHANGED <<log, error>>
       ELSE LET verdict == SafeToTreatAsEpisodic(info, header.signal_channels)
            IN  IF verdict = "IndexError"
                THEN Fail("IndexError") /\ UNCHANGED log
                ELSE /\ log' = verdict
                     /\ pc' = IF verdict = MsgCanTreat THEN "convert" ELSE "annotate"
                     /\ error' = error
    /\ UNCHANGED <<force_single_segment, eventVars,
                   schema_versions_read, callVars, readerVars, streamVars, columnVars, legacyVars,
                   traceVars, groupVars, episodeVars, objectVars>>

----------------------------------------------------------------------------
(* _convert_to_multi_segment                                               *)

\* line 196: channels.reshape(n_episodes, -1) needs a size the episode count
\* divides, or raises ValueError
ReshapeDefined(channels, n) ==
    n > 0 /\ Len(channels) > 0 /\ Len(channels) % n = 0

\* FirstRow with the axes of the reshape swapped
FirstColumn(channels, n) == SubSeq(channels, 1, n)

\* line 196: the first row of the reshaped table
FirstRow(channels, n) == SubSeq(channels, 1, Len(channels) \div n)

\* Chunks with slices one array too long
ChunksOverlap(sigs, k) ==
    [s \in 1..((Len(sigs) + k - 1) \div k) |->
        SubSeq(sigs, (s - 1) * k + 1, Min(s * k + 1, Len(sigs)))]

\* line 199-203: sigs[first:first+k] for first in np.arange(0, len(sigs), k)
Chunks(sigs, k) ==
    [s \in 1..((Len(sigs) + k - 1) \div k) |->
        SubSeq(sigs, (s - 1) * k + 1, Min(s * k, Len(sigs)))]

\* line 190-208
ConvertToMultiSegment ==
    /\ pc = "convert"
    /\ IF ReshapeDefined(header.signal_channels, info.n_episodes)
       THEN /\ header' = [header EXCEPT
                   !.nb_segment = <<info.n_episodes>>,
                   !.signal_channels = FirstRow(header.signal_channels, info.n_episodes)]
            /\ raw_signals' = Chunks(raw_signals[1],
                   Len(FirstRow(header.signal_channels, info.n_episodes)))
            /\ pc' = "annotate"
            /\ error' = error
       ELSE /\ header' = [header EXCEPT !.nb_segment = <<info.n_episodes>>]
            /\ Fail("ValueError")
            /\ UNCHANGED raw_signals
    /\ UNCHANGED <<log, force_single_segment, eventVars,
                   schema_versions_read, callVars, readerVars, streamVars,
                   columnVars, legacyVars, traceVars, groupVars, episodeVars,
                   info, self_time, raw_event_epoch_timestamps,
                   raw_event_epoch_durations, event_epoch_labels>>

\* line 43: _generate_minimal_annotations ends _parse_header
Annotate ==
    /\ pc = "annotate"
    /\ pc' = "done"
    /\ UNCHANGED <<error, log, force_single_segment, eventVars,
                   schema_versions_read, callVars, readerVars, streamVars, columnVars,
                   legacyVars, traceVars, groupVars, episodeVars, objectVars>>

----------------------------------------------------------------------------
(* The accessors of a parsed file.  A call is recorded with its arguments  *)
(* and what it returned or raised; it leaves the object as it is.          *)

NoCall == [op |-> "none"]
Raised(kind) == [raised |-> kind]

\* line 77: one item of a memory-mapped array, by its column and its
\* position (from 0) in the column
Sample(array, p) == [col |-> array.col, at |-> p]

\* line 77: array[slice(i_start, i_stop)] for 0 <= i_start, i_stop; a slice
\* stops at the end of the array
SliceOf(array, i_start, i_stop) ==
    LET first == Min(i_start, array.shape)
        last  == Min(i_stop, array.shape)
    IN  [k \in 1..(last - first) |-> Sample(array, first + k - 1)]

IsNone == [kind |-> "None"]
FullSlice == [kind |-> "slice"]
IndexList(idx) == [kind |-> "list", idx |-> idx]

\* ChannelIndexes with the channels of the table taken in reverse
ChannelIndexesReversed(selection, count) ==
    IF selection.kind \in {"None", "slice"}
    THEN [j \in 1..count |-> count - j]
    ELSE selection.idx

\* line 74-75: range(self.signal_channels_count()) for None or slice(None)
ChannelIndexes(selection, count) ==
    IF selection.kind \in {"None", "slice"}
    THEN [j \in 1..count |-> j - 1]
    ELSE selection.idx

\* line 78: np.array(list of 1-D arrays).T: samples x channels when the
\* arrays have one length; of no array, a 1-D array of length 0; of arrays
\* of several lengths either a 1-D array of arrays or ValueError, by the
\* version of numpy
Transposed(arrays) ==
    IF Len(arrays) = 0
    THEN {[ndim |-> 1, shape |-> <<0>>, at |-> <<>>]}
    ELSE IF \A j \in 1..Len(arrays) : Len(arrays[j]) = Len(arrays[1])
    THEN {[ndim  |-> 2,
           shape |-> <<Len(arrays[1]), Len(arrays)>>,
           at    |-> [k \in 1..Len(arrays[1]) |->
                        [j \in 1..Len(arrays) |-> arrays[j][k]]]]}
    ELSE {[ndim |-> 1, shape |-> <<Len(arrays)>>, at |-> arrays],
          Raised("ValueError")}

\* line 71-80: what _get_analogsignal_chunk can return or raise; indexes
\* are taken from 0 on
AnalogsignalChunk(block_index, seg_index, i_start, i_stop, selection) ==
    IF block_index # 0 THEN {Raised("AssertionError")}
    ELSE LET idx == ChannelIndexes(selection, Len(header.signal_channels))
         IN  IF Len(idx) = 0 THEN Transposed(<<>>)
             ELSE IF seg_index >= Len(raw_signals) THEN {Raised("IndexError")}
             ELSE IF \E j \in 1..Len(idx) : idx[j] >= Len(raw_signals[seg_index + 1])
             THEN {Raised("IndexError")}
             ELSE Transposed([j \in 1..Len(idx) |->
                      SliceOf(raw_signals[seg_index + 1][idx[j] + 1], i_start, i_stop)])

\* line 71-80
GetAnalogsignalChunk(A) ==
    /\ pc = "done"
    /\ \E block_index \in A.blocks, seg_index \in A.segments,
          i_start \in A.samples, i_stop \in A.samples,
          selection \in A.selections :
          /\ call' = [op              |-> "_get_analogsignal_chunk",
                      block_index     |-> block_index,
                      seg_index       |-> seg_index,
                      i_start         |-> i_start,
                      i_stop          |-> i_stop,
                      channel_indexes |-> selection]
          /\ result' \in AnalogsignalChunk(block_index, seg_index, i_start, i_stop,
                                           selection)
    /\ UNCHANGED <<pc, error, log, force_single_segment, streamVars, columnVars,
                   legacyVars, traceVars, groupVars, schema_versions_read,
                   episodeVars, eventVars, objectVars, readerVars>>

\* line 109-117: the arrays of the channel, as stored
GetEventTimestamps(A) ==
    /\ pc = "done"
    /\ \E event_channel_index \in A.event_channels :
          /\ call' = [op                  |-> "_get_event_timestamps",
                      event_channel_index |-> event_channel_index]
          /\ result' =
                 [timestamps |-> raw_event_epoch_timestamps[event_channel_index + 1],
                  durations  |-> raw_event_epoch_durations[event_channel_index + 1],
                  labels     |-> event_epoch_labels[event_channel_index + 1]]
    /\ UNCHANGED <<pc, error, log, force_single_segment, streamVars, columnVars,
                   legacyVars, traceVars, groupVars, schema_versions_read,
                   episodeVars, eventVars, objectVars, readerVars>>

\* ndarray.astype(dtype): a float keeps the value, an integer its integer part
AsType(q, dtype) ==
    IF dtype = "float64" THEN q ELSE Quot(Truncated(q), 1)

Times(q, x) == [num |-> q.num * x, den |-> q.den]
Plus(q, x) == [num |-> q.num + x * q.den, den |-> q.den]

\* Rescaled with the start time added
RescaledFromStart(raw, dtype, time) ==
    [k \in 1..Len(raw) |-> Plus(Times(AsType(raw[k], dtype), time[2]), time[1])]

\* line 121, 126: raw.astype(dtype) * self._sampling_period; time is
\* <<self._t_start, self._sampling_period>>
Rescaled(raw, dtype, time) ==
    [k \in 1..Len(raw) |-> Times(AsType(raw[k], dtype), time[2])]

\* line 119-122, on the raw timestamps of a channel
RescaleEventTimestamp(A) ==
    /\ pc = "done"
    /\ \E event_channel_index \in A.event_channels, dtype \in A.dtypes :
          /\ call' = [op               |-> "_rescale_event_timestamp",
                      event_timestamps |-> raw_event_epoch_timestamps[event_channel_index + 1],
                      dtype            |-> dtype]
          /\ result' = Rescaled(raw_event_epoch_timestamps[event_channel_index + 1],
                                dtype, self_time)
    /\ UNCHANGED <<pc, error, log, force_single_segment, streamVars, columnVars,
                   legacyVars, traceVars, groupVars, schema_versions_read,
                   episodeVars, eventVars, objectVars, readerVars>>

\* line 124-127, on the raw durations of the epochs
RescaleEpochDuration(A) ==
    /\ pc = "done"
    /\ \E dtype \in A.dtypes :
          /\ call' = [op           |-> "_rescale_epoch_duration",
                      raw_duration |-> raw_event_epoch_durations[2],
                      dtype        |-> dtype]
          /\ result' = Rescaled(raw_event_epoch_durations[2], dtype, self_time)
    /\ UNCHANGED <<pc, error, log, force_single_segment, streamVars, columnVars,
                   legacyVars, traceVars, groupVars, schema_versions_read,
                   episodeVars, eventVars, objectVars, readerVars>>

\* what an accessor leaves alone: everything but the record of the call
parsedVars == <<pc, error, log, force_single_segment, streamVars, columnVars,
                legacyVars, traceVars, groupVars, schema_versions_read,
                episodeVars, eventVars, objectVars, readerVars>>

\* line 65: len(self._raw_signals[seg_index][0]), of the first channel of
\* the segment whatever the channels asked for; IndexError without such a
\* segment or without a channel
Returned(value) == [value |-> value]
HasFirstChannel(seg_index) ==
    seg_index < Len(raw_signals) /\ Len(raw_signals[seg_index + 1]) > 0
SignalSize(seg_index) ==
    IF HasFirstChannel(seg_index)
    THEN Returned(raw_signals[seg_index + 1][1].shape)
    ELSE Raised("IndexError")

\* line 56-58: self._t_start + len(...) * self._sampling_period
SegmentTStopOf(seg_index) ==
    IF HasFirstChannel(seg_index)
    THEN Returned(self_time[1] + SignalSize(seg_index).value * self_time[2])
    ELSE Raised("IndexError")

\* line 107: self._raw_event_epoch_timestamps[event_channel_index].size
EventCountOf(event_channel_index) ==
    Returned(Len(raw_event_epoch_timestamps[event_channel_index + 1]))

\* line 50-52, 67-69: self._t_start, the same for all segments
SegmentTStart(A) ==
    /\ pc = "done"
    /\ \E seg_index \in A.segments, op \in {"_segment_t_start", "_get_signal_t_start"} :
          /\ call' = [op |-> op, block_index |-> 0, seg_index |-> seg_index]
          /\ result' = Returned(self_time[1])
    /\ UNCHANGED parsedVars

\* SegmentTStop that keeps the stop time as the start of the next call
SegmentTStopAdvances(A) ==
    /\ pc = "done"
    /\ \E seg_index \in A.segments :
          /\ call' = [op |-> "_segment_t_stop", block_index |-> 0, seg_index |-> seg_index]
          /\ result' = SegmentTStopOf(seg_index)
          /\ self_time' = IF HasFirstChannel(seg_index)
                          THEN <<result'.value, self_time[2]>>
                          ELSE self_time
    /\ UNCHANGED <<pc, error, log, force_single_segment, streamVars, columnVars,
                   legacyVars, traceVars, groupVars, schema_versions_read,
                   episodeVars, eventVars, readerVars, header, info, raw_signals,
                   raw_event_epoch_timestamps, raw_event_epoch_durations,
                   event_epoch_labels>>

\* line 54-58
SegmentTStop(A) ==
    /\ pc = "done"
    /\ \E seg_index \in A.segments :
          /\ call' = [op |-> "_segment_t_stop", block_index |-> 0, seg_index |-> seg_index]
          /\ result' = SegmentTStopOf(seg_index)
    /\ UNCHANGED parsedVars

\* line 63-65: the channel indexes are not looked at
GetSignalSize(A) ==
    /\ pc = "done"
    /\ \E seg_index \in A.segments, selection \in A.selections :
          /\ call' = [op |-> "_get_signal_size", block_index |-> 0,
                      seg_index |-> seg_index, channel_indexes |-> selection]
          /\ result' = SignalSize(seg_index)
    /\ UNCHANGED parsedVars

\* line 103-107
EventCount(A) ==
    /\ pc = "done"
    /\ \E event_channel_index \in A.event_channels :
          /\ call' = [op |-> "_event_count",
                      event_channel_index |-> event_channel_index]
          /\ result' = EventCountOf(event_channel_index)
    /\ UNCHANGED parsedVars

\* line 85-98: the operations on spikes and units
SpikeOps == {"_spike_count", "_get_spike_timestamps", "_rescale_spike_timestamp",
             "_get_spike_raw_waveforms"}

\* SpikeCall for a file without spikes: no spike, nothing raised
SpikeCallFindsNone(A) ==
    /\ pc = "done"
    /\ \E op \in SpikeOps, unit_index \in A.units :
          /\ call' = [op |-> op, unit_index |-> unit_index]
          /\ result' = IF op = "_spike_count" THEN Returned(0)
                        ELSE Raised("NotImplementedError")
    /\ UNCHANGED parsedVars

\* line 85-98: raise (NotImplementedError), whatever the arguments
SpikeCall(A) ==
    /\ pc = "done"
    /\ \E op \in SpikeOps, unit_index \in A.units :
          /\ call' = [op |-> op, unit_index |-> unit_index]
          /\ result' = Raised("NotImplementedError")
    /\ UNCHANGED parsedVars

----------------------------------------------------------------------------
(* StructFile on a stream that ends after fid more bytes: the fields of a  *)
(* description are read one after the other, as by                         *)
(* "for key, fmt in Description: info[key] = f.read_f(fmt)".               *)

\* line 911-917
GroupHeaderDescriptionV1 == <<"S", "h", "S", "hll">>

\* line 942-948
EpochInfoDescription == <<"S", "d", "d", "d">>

\* line 255, 268, 283, 427, 465, 473, 481: the last column of a file of
\* version 3 or more, of type 4 (point count, type, title, array of shorts),
\* then the comment, the notes and the trace count
ColumnDescription == <<"l", "l", "S", "memmap", "S", "S", "l">>

\* line 811: calcsize('>' + fmt), no padding
CalcSize(fmt) ==
    CASE fmt = "l" -> 4 [] fmt = "h" -> 2 [] fmt = "d" -> 8 [] fmt = "hll" -> 10

\* a decoded field: the bytes its format or its length prefix declares and
\* the bytes it was decoded from
Field(fmt, declared, used) == [fmt |-> fmt, declared |-> declared, used |-> used]

\* unpack taking the bytes it is given for the bytes of the format
UnpackTakesAny(left, size) == left # left

\* line 811: unpack(fmt, self.read(calcsize(fmt))) raises struct.error when
\* read() returns fewer bytes than the format takes
UnpackFails(left, size) == left < size

\* line 808-811, 857: read_and_unpack
ReadAndUnpack ==
    /\ pc = "reading"
    /\ fmts # <<>>
    /\ Head(fmts) \in {"l", "h", "d", "hll"}
    /\ IF UnpackFails(fid, CalcSize(Head(fmts)))
       THEN /\ fid' = 0
            /\ Fail("struct.error")
            /\ UNCHANGED <<data, fmts>>
       ELSE /\ fid' = fid - Min(fid, CalcSize(Head(fmts)))
            /\ data' = Append(data, Field(Head(fmts), CalcSize(Head(fmts)),
                                          Min(fid, CalcSize(Head(fmts)))))
            /\ fmts' = Tail(fmts)
            /\ pc' = IF Tail(fmts) = <<>> THEN "read" ELSE "reading"
            /\ error' = error
    /\ UNCHANGED <<log, force_single_segment, streamVars, columnVars, legacyVars,
                   traceVars, groupVars, schema_versions_read, episodeVars,
                   eventVars, objectVars, callVars>>

\* line 822: self.read(length) returns the bytes that are left when fewer
\* than length are
DecodedFrom(length, left) == Min(length, left)

\* line 813-824, 853: read_string; the length prefix, then the text, which
\* decodes as UTF-16 from an even number of bytes only
ReadString(lengths) ==
    /\ pc = "reading"
    /\ fmts # <<>>
    /\ Head(fmts) = "S"
    /\ IF UnpackFails(fid, CalcSize("l"))
       THEN /\ fid' = 0
            /\ Fail("struct.error")
            /\ UNCHANGED <<data, fmts>>
       ELSE \E length \in lengths :
               IF length > 0
               THEN LET left == fid - Min(fid, CalcSize("l"))
                        got  == DecodedFrom(length, left)
                    IN  /\ fid' = left - got
                        /\ IF got % 2 = 1
                           THEN /\ Fail("UnicodeDecodeError")
                                /\ UNCHANGED <<data, fmts>>
                           ELSE /\ data' = Append(data, Field("S", length, got))
                                /\ fmts' = Tail(fmts)
                                /\ pc' = IF Tail(fmts) = <<>> THEN "read" ELSE "reading"
                                /\ error' = error
               ELSE /\ fid' = fid - Min(fid, CalcSize("l"))
                    /\ data' = Append(data, Field("S", 0, 0))
                    /\ fmts' = Tail(fmts)
                    /\ pc' = IF Tail(fmts) = <<>> THEN "read" ELSE "reading"
                    /\ error' = error
    /\ UNCHANGED <<log, force_single_segment, streamVars, columnVars, legacyVars,
                   traceVars, groupVars, schema_versions_read, episodeVars,
                   eventVars, objectVars, callVars>>

\* line 427-428: np.memmap(..., mode='r', offset=f.tell(), shape=n_points) of
\* shorts raises ValueError when the file ends before the array does;
\* f.seek(array.nbytes, 1) skips it
MapArray(points) ==
    /\ pc = "reading"
    /\ fmts # <<>>
    /\ Head(fmts) = "memmap"
    /\ \E n_points \in points :
          IF fid >= NBytes("h", n_points)
          THEN /\ fid' = fid - NBytes("h", n_points)
               /\ data' = Append(data, Field("memmap", NBytes("h", n_points),
                                             NBytes("h", n_points)))
               /\ fmts' = Tail(fmts)
               /\ pc' = IF Tail(fmts) = <<>> THEN "read" ELSE "reading"
               /\ error' = error
          ELSE /\ Fail("ValueError")
               /\ UNCHANGED <<fid, data, fmts>>
    /\ UNCHANGED <<log, force_single_segment, streamVars, columnVars, legacyVars,
                   traceVars, groupVars, schema_versions_read, episodeVars,
                   eventVars, objectVars, callVars>>

----------------------------------------------------------------------------
(* Specifications.                                                         *)

\* nothing read, nothing organized, no accessor called
Unread ==
    /\ error = ""
    /\ log = ""
    /\ header_id = ""
    /\ format_ver = 0
    /\ n_cols = 0
    /\ i = 0
    /\ columns = <<>>
    /\ time_axis = <<>>
    /\ sigs_memmap = <<>>
    /\ sig_channels = <<>>
    /\ rest_of_the_file = 0
    /\ n_traces = 0
    /\ trace_header_info_list = <<>>
    /\ n_groups = 0
    /\ group_ids = <<>>
    /\ group_header_info_list = EmptyDict
    /\ schema_versions_read = <<>>
    /\ n_episodes = 0
    /\ episode_counts = <<>>
    /\ episode_arrays = <<>>
    /\ n_events = 0
    /\ event_list = <<>>
    /\ n_epochs = 0
    /\ epoch_list = <<>>
    /\ annotations = EmptyDict
    /\ header = EmptyDict
    /\ info = EmptyDict
    /\ raw_signals = <<>>
    /\ self_time = <<>>
    /\ raw_event_epoch_timestamps = <<>>
    /\ raw_event_epoch_durations = <<>>
    /\ event_epoch_labels = <<>>
    /\ call = NoCall
    /\ result = NoCall

\* line 25-28: the object before _parse_header, force_single_segment=False
Init ==
    /\ pc = "magic"
    /\ force_single_segment = FALSE
    /\ Unread
    /\ fid = 0
    /\ fmts = <<>>
    /\ data = <<>>

\* the sections every kind of file below has: one episode array of each
\* kind of the length of the first, no event, no epoch
Plain(nepisodes) ==
    [redundant      |-> nepisodes,
     episode_bools  |-> {TRUE},
     nevents        |-> {<<0, 0, 0>>},
     event_indexes  |-> {0},
     event_titles   |-> {"tag"},
     nepochs        |-> {0},
     epochs         |-> {[title |-> "epoch", t_start |-> 0, t_stop |-> 1]}]

\* the fields of e, and those of d that e does not have
Over(d, e) == DictUpdate(d, e)

\* files with every kind of tag, version and column, and one trace per group
ColumnFiles == Over(Plain({1}),
    [magics         |-> Magics,
     versions       |-> Versions,
     ncols          |-> ColCounts,
     points         |-> {MaxPoints},
     titles         |-> {<<W("Current"), U("pA")>>},
     tags           |-> ColTypes,
     firsts         |-> FirstValues,
     incs           |-> Increments,
     gains          |-> Gains,
     offsets        |-> Offsets,
     rests          |-> {0, 1},
     ntraces        |-> {1},
     trace_versions |-> {1, 2, 3},
     y_indexes      |-> [t \in 1..1 |-> {1}],
     group_ids      |-> {0},
     ngroups        |-> {0, 1},
     group_versions |-> {1, 2},
     nepisodes      |-> {1},
     font_settings  |-> {FONT_BOLD, FONT_NOT_BOLD, 0}])

\* files with few kinds of column and every grouping of traces; the first
\* trace may plot any column index, the time column and indexes past the
\* last column included, the other traces plot signal columns
EpisodicFiles == Over(Plain({1}),
    [magics         |-> {"AxGr", "axgx"},
     versions       |-> {2, 3},
     ncols          |-> 1..MaxCols,
     points         |-> {MaxPoints},
     titles         |-> Titles,
     tags           |-> {4, 9},
     firsts         |-> {0},
     incs           |-> {2},
     gains          |-> {1},
     offsets        |-> {0},
     rests          |-> {0},
     ntraces        |-> 0..MaxTraces,
     trace_versions |-> {1},
     y_indexes      |-> [t \in 1..MaxTraces |->
                            IF t = 1 THEN 0..MaxCols ELSE 1..(MaxCols - 1)],
     group_ids      |-> {0, 1},
     ngroups        |-> {1, 2},
     group_versions |-> {1},
     nepisodes      |-> 1..MaxEpisodes,
     font_settings  |-> {FONT_BOLD}])

\* files whose trace t plots column t, with up to MaxGroupTraces traces in
\* each of two groups
LayoutFiles == Over(Plain({1}),
    [magics         |-> {"AxGr", "axgx"},
     versions       |-> {2, 3},
     ncols          |-> 1..(2 * MaxGroupTraces + 1),
     points         |-> {MaxPoints},
     titles         |-> Titles,
     tags           |-> {4, 9},
     firsts         |-> {0},
     incs           |-> {2},
     gains          |-> {1},
     offsets        |-> {0},
     rests          |-> {0},
     ntraces        |-> 0..(2 * MaxGroupTraces),
     trace_versions |-> {1},
     y_indexes      |-> [t \in 1..(2 * MaxGroupTraces) |-> {t}],
     group_ids      |-> {0, 1},
     ngroups        |-> {1, 2},
     group_versions |-> {1},
     nepisodes      |-> 1..MaxGroupTraces,
     font_settings  |-> {FONT_BOLD}])

\* files of one or two columns of the three column eras
SmallFiles ==
    [magics         |-> {"AxGr", "axgx"},
     versions       |-> {1, 2, 3},
     ncols          |-> {1, 2},
     points         |-> {MaxPoints},
     titles         |-> {<<W("V")>>},
     tags           |-> {4, 9},
     firsts         |-> {0, 5},
     incs           |-> {2},
     gains          |-> {1},
     offsets        |-> {0},
     rests          |-> {0},
     ntraces        |-> {1},
     trace_versions |-> {1},
     y_indexes      |-> [t \in 1..1 |-> {1}],
     group_ids      |-> {0},
     ngroups        |-> {1},
     group_versions |-> {1},
     nepisodes      |-> {1},
     font_settings  |-> {FONT_BOLD}]

\* files whose columns have no point or MaxPoints points
PointFiles == Over(Plain({1}), Over(SmallFiles,
    [ncols  |-> 1..MaxCols,
     points |-> PointCounts,
     tags   |-> {4, 9, 10}]))

\* files of every format version whose episode arrays differ in length
EpisodeFiles == Over(Plain({1}), Over(SmallFiles,
    [versions      |-> {2, 3, 5, 6},
     ncols         |-> {3},
     firsts        |-> {0},
     ntraces       |-> {2},
     y_indexes     |-> [t \in 1..2 |-> {t}],
     nepisodes     |-> 0..MaxEpisodes,
     redundant     |-> 0..MaxEpisodes,
     episode_bools |-> BOOLEAN]))

\* files with up to MaxEvents events and epochs
EventFiles == Over(Plain({1}), Over(SmallFiles,
    [versions      |-> {2, 3},
     ncols         |-> {0, 2},
     incs          |-> {-1, 2},
     nevents       |-> {<<n, n, n>> : n \in 0..MaxEvents},
     event_indexes |-> {0, 3},
     nepochs       |-> 0..MaxEvents,
     epochs        |-> {[title |-> "epoch", t_start |-> 0, t_stop |-> 4],
                        [title |-> "epoch", t_start |-> 1, t_stop |-> 4]}]))

\* files whose traces make one or MaxEpisodes segments
ChunkFiles == Over(Plain({1}), Over(SmallFiles,
    [versions  |-> {2, 3},
     ncols     |-> {1, 3},
     ntraces   |-> {1, 2},
     y_indexes |-> [t \in 1..2 |-> {t}],
     nepisodes |-> {1, 2}]))

\* the calls made of the accessors
Calls ==
    [blocks         |-> {0, 1},
     segments       |-> 0..MaxEpisodes,
     samples        |-> 0..MaxPoints,
     selections     |-> {IsNone, FullSlice, IndexList(<<>>), IndexList(<<0>>),
                         IndexList(<<1>>), IndexList(<<1, 0>>)},
     event_channels |-> {0, 1},
     dtypes         |-> {"float64", "int64"}]

Parse(D) ==
    \/ ReadMagic(D)
    \/ ReadVersion(D)
    \/ ReadColumn(D)
    \/ ReadLegacyTail(D)
    \/ ReadTraceCount(D)
    \/ ReadTraceHeader(D)
    \/ ReadGroupCount(D)
    \/ ReadGroupHeader(D)
    \/ ReadEpisodes(D)
    \/ ReadSettings(D)
    \/ ReadEvents(D)
    \/ ReadEpochs(D)
    \/ Organize
    \/ Heuristic
    \/ ConvertToMultiSegment
    \/ Annotate

Next == Parse(ColumnFiles)
Spec == Init /\ [][Next]_vars

NextEpisodic == Parse(EpisodicFiles)
SpecEpisodic == Init /\ [][NextEpisodic]_vars

NextLayout == Parse(LayoutFiles)
SpecLayout == Init /\ [][NextLayout]_vars

NextPoints == Parse(PointFiles)
SpecPoints == Init /\ [][NextPoints]_vars

NextEpisodes == Parse(EpisodeFiles)
SpecEpisodes == Init /\ [][NextEpisodes]_vars

\* line 25-28: the object is constructed with either value of
\* force_single_segment
InitForced ==
    /\ pc = "magic"
    /\ force_single_segment \in BOOLEAN
    /\ Unread
    /\ fid = 0
    /\ fmts = <<>>
    /\ data = <<>>

NextForced == Parse(ChunkFiles)
SpecForced == InitForced /\ [][NextForced]_vars

\* files of one or MaxEpisodes segments with an event and an epoch
AccessFiles == Over(ChunkFiles,
    [firsts  |-> {5},
     nevents |-> {<<1, 1, 1>>},
     nepochs |-> {1}])

\* the calls made of all the accessors
AccessCalls ==
    [blocks         |-> {0, 1},
     segments       |-> {0, MaxEpisodes - 1},
     samples        |-> {0, MaxPoints},
     selections     |-> {IsNone, IndexList(<<1, 0>>)},
     event_channels |-> {0, 1},
     dtypes         |-> {"float64", "int64"},
     units          |-> {0, 1}]

NextAccess ==
    \/ Parse(AccessFiles)
    \/ SegmentTStart(AccessCalls)
    \/ SegmentTStop(AccessCalls)
    \/ GetSignalSize(AccessCalls)
    \/ GetAnalogsignalChunk(AccessCalls)
    \/ EventCount(AccessCalls)
    \/ GetEventTimestamps(AccessCalls)
    \/ RescaleEventTimestamp(AccessCalls)
    \/ RescaleEpochDuration(AccessCalls)
    \/ SpikeCall(AccessCalls)
SpecAccess == Init /\ [][NextAccess]_vars

\* the sizes asked of files whose columns have point counts of their own
NextSizes ==
    \/ Parse(PointFiles)
    \/ GetSignalSize(AccessCalls)
    \/ SegmentTStop(AccessCalls)
SpecSizes == Init /\ [][NextSizes]_vars

\* files whose three event counts are any numbers up to MaxEvents
CountFiles == Over(EventFiles,
    [versions |-> {2, 3},
     ncols    |-> {2},
     incs     |-> {2},
     nevents  |-> (0..MaxEvents) \X (0..MaxEvents) \X (0..MaxEvents)])

NextCounts ==
    \/ Parse(CountFiles)
    \/ EventCount(AccessCalls)
    \/ GetEventTimestamps(AccessCalls)
SpecCounts == Init /\ [][NextCounts]_vars

NextEvents ==
    \/ Parse(EventFiles)
    \/ GetEventTimestamps(Calls)
    \/ RescaleEventTimestamp(Calls)
    \/ RescaleEpochDuration(Calls)
SpecEvents == Init /\ [][NextEvents]_vars

NextChunk ==
    \/ Parse(ChunkFiles)
    \/ GetAnalogsignalChunk(Calls)
SpecChunk == Init /\ [][NextChunk]_vars

\* the descriptions read from a stream of up to MaxBytes bytes
Descriptions == {GroupHeaderDescriptionV1, EpochInfoDescription, ColumnDescription}
TextLengths == {-1, 0, 2, 4}

InitStruct ==
    /\ pc = "reading"
    /\ force_single_segment = FALSE
    /\ Unread
    /\ fid \in 0..MaxBytes
    /\ fmts \in Descriptions
    /\ data = <<>>

NextStruct ==
    \/ ReadAndUnpack
    \/ ReadString(TextLengths)
    \/ MapArray(PointCounts)
SpecStruct == InitStruct /\ [][NextStruct]_vars

----------------------------------------------------------------------------
(* Properties of the tag, the version and the columns, under Spec.         *)

Parsed == pc = "done"

\* what _parse_header leaves when _do_the_heavy_lifting raised before line 741
NothingExposed ==
    /\ DOMAIN header = {} /\ DOMAIN info = {} /\ raw_signals = <<>> /\ self_time = <<>>
    /\ raw_event_epoch_timestamps = <<>>
    /\ raw_event_epoch_durations = <<>>
    /\ event_epoch_labels = <<>>

\* C6: the storage kind and the (gain, offset) of every signal channel follow
\* from the format version and the type tag of its column alone: version 1
\* is 32-bit float (1, 0); version 2 is 16-bit integer with the gain read as
\* one float and offset 0; from version 3 on tag 4 is 16-bit integer, 5
\* 32-bit integer, 6 32-bit float, 7 64-bit float, all with (1, 0), and tag
\* 10 is 16-bit integer with gain and offset read as two floats.
C6_Expected(ver, col, ch) ==
    IF ver = 1 THEN ch.dtype = ">f" /\ ch.gain = 1 /\ ch.offset = 0
    ELSE IF ver = 2
    THEN ch.dtype = ">h" /\ col.floats = <<ch.gain>> /\ ch.offset = 0
    ELSE /\ col.col_type \in {4, 5, 6, 7, 10}
         /\ col.col_type = 4 => ch.dtype = ">h" /\ ch.gain = 1 /\ ch.offset = 0
         /\ col.col_type = 5 => ch.dtype = ">l" /\ ch.gain = 1 /\ ch.offset = 0
         /\ col.col_type = 6 => ch.dtype = ">f" /\ ch.gain = 1 /\ ch.offset = 0
         /\ col.col_type = 7 => ch.dtype = ">d" /\ ch.gain = 1 /\ ch.offset = 0
         /\ col.col_type = 10 =>
               ch.dtype = ">h" /\ col.floats = <<ch.gain, ch.offset>>
C7_BeforeReshape ==
    pc \in {"heuristic", "convert"} \/ (pc \in {"annotate", "done"} /\ log # MsgCanTreat)
C7_ColumnZeroIsTime ==
    /\ pc \in {"heuristic", "convert", "annotate", "done"} =>
          /\ Len(columns) = n_cols
          /\ n_cols >= 1
          /\ self_time = <<columns[1].floats[1], columns[1].floats[2]>>
          /\ \A k \in 1..Len(header.signal_channels) :
                header.signal_channels[k].id # 0
          /\ \A s \in 1..Len(raw_signals) : \A k \in 1..Len(raw_signals[s]) :
                raw_signals[s][k].col # 0
    /\ C7_BeforeReshape =>
          /\ Len(header.signal_channels) = n_cols - 1
          /\ \A k \in 1..(n_cols - 1) : header.signal_channels[k].id = k
          /\ raw_signals = <<[k \in 1..(n_cols - 1) |-> raw_signals[1][k]]>>
          /\ \A k \in 1..(n_cols - 1) : raw_signals[1][k].col = k
C7_Witness ==
    /\ Parsed
    /\ n_cols = 3
    /\ self_time = <<5, 2>>
    /\ Len(header.signal_channels) = 2

\* C8: from version 3 on, a column whose type tag is none of 4, 5, 6, 7, 9,
\* 10, at any position, ends the parse with the unsupported-column-type error
\* (NotImplementedError) as soon as it is read, and nothing is exposed: no
\* header, no channel table, no data.
C8_UnknownTagFails ==
    \A k \in 1..Len(columns) :
        (format_ver >= 3 /\ columns[k].col_type \notin {4, 5, 6, 7, 9, 10}) =>
            /\ pc = "failed"
            /\ error = "NotImplementedError"
            /\ k = Len(columns)
            /\ NothingExposed
C8_Witness ==
    /\ pc = "failed"
    /\ Len(columns) = 3
    /\ columns[3].col_type = 99
    /\ Len(sig_channels) = 1

\* C9: a file whose first 4 bytes are neither 'AxGr' nor 'axgx' fails at once:
\* no version, column or section is read and nothing is exposed.
C9_UnknownMagicFails ==
    (pc # "magic" /\ header_id \notin {"AxGr", "axgx"}) =>
        /\ pc = "failed"
        /\ error = "AssertionError"
        /\ format_ver = 0 /\ n_cols = 0
        /\ columns = <<>>
        /\ NothingExposed
C9_Witness == pc = "failed" /\ header_id = "RIFF"

\* C10: the legacy tag with a version other than 1 and 2, or the modern tag
\* with a version below 3, fails before any column is read; so a parsed file
\* with the legacy tag has version 1 or 2 and one with the modern tag has a
\* version of at least 3.
C10_Mismatch ==
    \/ header_id = "AxGr" /\ format_ver \notin {1, 2}
    \/ header_id = "axgx" /\ format_ver < 3
C10_VersionMismatchFails ==
    /\ (pc \notin {"magic", "version"} /\ C10_Mismatch) =>
          /\ pc = "failed"
          /\ error = "AssertionError"
          /\ columns = <<>>
          /\ NothingExposed
    /\ Parsed => ~C10_Mismatch /\ header_id \in {"AxGr", "axgx"}
C10_Witness == pc = "failed" /\ header_id = "AxGr" /\ format_ver = 3

----------------------------------------------------------------------------
(* Properties of the episodic heuristic and of the reshape.                *)

\* the heuristic has returned or raised
HeuristicInvoked == DOMAIN info # {} /\ pc # "heuristic"
Accepted == log = MsgCanTreat
Rejected == log \in {MsgOldFormat, MsgGroupsDiffer, MsgEpisodeCount, MsgHeterogeneous}
Converted == Accepted /\ pc \in {"annotate", "done"}

C1_Groups == DOMAIN info.group_header_info_list
C1_Members(g) ==
    {t \in 1..Len(info.trace_header_info_list) :
        info.trace_header_info_list[t].group_id_for_this_trace = g}
C1_Column(t) == info.trace_header_info_list[t].y_index
\* the descriptors, without the id, of the decoded channels of column y
C1_Descriptors(y) ==
    {DropId(sig_channels[k]) : k \in {j \in 1..Len(sig_channels) : sig_channels[j].id = y}}
C1_Check1 == info.format_ver >= 3
C1_Check2 ==
    /\ C1_Groups # {}
    /\ \A g, h \in C1_Groups : Cardinality(C1_Members(g)) = Cardinality(C1_Members(h))
C1_Check3 == \A g \in C1_Groups : Cardinality(C1_Members(g)) = info.n_episodes
C1_Check4 ==
    \A g \in C1_Groups :
        /\ \A t \in C1_Members(g) : C1_Descriptors(C1_Column(t)) # {}
        /\ \A t, u \in C1_Members(g) :
              C1_Descriptors(C1_Column(t)) = C1_Descriptors(C1_Column(u))
C1_FirstFailing ==
    IF ~C1_Check1 THEN MsgOldFormat
    ELSE IF ~C1_Check2 THEN MsgGroupsDiffer
    ELSE IF ~C1_Check3 THEN MsgEpisodeCount
    ELSE IF ~C1_Check4 THEN MsgHeterogeneous
    ELSE MsgCanTreat

\* C1: the heuristic accepts a decoded file exactly when (1) the version is at
\* least 3, (2) every group has the same number of traces, (3) that number is
\* n_episodes and (4) within each group the descriptors of the columns the
\* traces plot (their y_index) agree but for the id; the first check that
\* fails rejects the file, the later ones are not evaluated.
C1_HeuristicIffAllChecks == HeuristicInvoked => log = C1_FirstFailing

\* C2: a file the heuristic rejects keeps one segment holding every decoded
\* channel, the channel table and the arrays in column order as decoded.
C2_RejectedKeepsSingleSegment ==
    Rejected =>
        /\ pc \in {"annotate", "done"}
        /\ header.nb_segment = <<1>>
        /\ header.signal_channels = sig_channels
        /\ raw_signals = <<sigs_memmap>>
        /\ Len(sig_channels) = n_cols - 1
        /\ \A k \in 1..(n_cols - 1) :
              sig_channels[k].id = k /\ sigs_memmap[k].col = k
C2_Witness ==
    /\ Parsed
    /\ log = MsgGroupsDiffer
    /\ info.n_episodes = 2
    /\ Len(header.signal_channels) = 2

C4_GroupsOf(col) ==
    {info.trace_header_info_list[t].group_id_for_this_trace :
        t \in {u \in 1..Len(info.trace_header_info_list) : C1_Column(u) = col}}

\* C4: after the reshape of an accepted file the channel table has one entry
\* per group: as many entries as groups, each a column of some group, no two
\* of them columns of the same group.
C4_OneChannelPerGroup ==
    Converted =>
        /\ Len(header.signal_channels) = Cardinality(C1_Groups)
        /\ \A k \in 1..Len(header.signal_channels) :
              C4_GroupsOf(header.signal_channels[k].id) # {}
        /\ \A k, l \in 1..Len(header.signal_channels) :
              k # l => C4_GroupsOf(header.signal_channels[k].id)
                           \cap C4_GroupsOf(header.signal_channels[l].id) = {}

RECURSIVE Flatten(_)
Flatten(segments) ==
    IF segments = <<>> THEN <<>>
    ELSE Flatten(SubSeq(segments, 1, Len(segments) - 1)) \o segments[Len(segments)]

RECURSIVE PointCount(_)
PointCount(arrays) ==
    IF arrays = <<>> THEN 0
    ELSE PointCount(SubSeq(arrays, 1, Len(arrays) - 1)) + arrays[Len(arrays)].shape

\* C5: the reshape of an accepted file loses and repeats no array: the
\* segments' arrays, in segment order, are the decoded arrays in column
\* order, and their point counts add up to that of the decoded arrays.
C5_ReshapeKeepsEveryArray ==
    Converted =>
        /\ Flatten(raw_signals) = sigs_memmap
        /\ PointCount(Flatten(raw_signals)) = PointCount(sigs_memmap)
C5_Witness ==
    /\ Parsed
    /\ Accepted
    /\ Len(raw_signals) = 2
    /\ Len(sigs_memmap) = 4
    /\ PointCount(sigs_memmap) = 4 * MaxPoints

----------------------------------------------------------------------------
(* Properties of the sections after the columns.                           *)

LegacyFile == header_id = "AxGr" /\ format_ver \in {1, 2}
Organized == pc \in {"heuristic", "convert", "annotate", "done"}

\* C11: of a file of version 1 or 2 with a time column, the stream must end
\* where the columns end: bytes left over end the parse with an error
\* (AssertionError) and expose nothing, and they are the only thing that can
\* fail once the columns are decoded; without them the five lists of events
\* and epochs (timestamps, durations, labels) are empty, and so are the
\* arrays of both annotation channels of the parsed file.
C11_LegacyStreamExhausted ==
    LegacyFile =>
        /\ rest_of_the_file # 0 =>
              /\ pc = "failed" /\ error = "AssertionError"
              /\ i = n_cols
              /\ DOMAIN annotations = {}
              /\ NothingExposed
        /\ (pc = "failed" /\ i = n_cols /\ n_cols >= 1) => rest_of_the_file # 0
        /\ (pc = "organize" \/ Organized) =>
              /\ DOMAIN annotations = AnnotationNames
              /\ \A name \in AnnotationNames : annotations[name] = <<>>
        /\ Organized =>
              /\ raw_event_epoch_timestamps = << <<>>, <<>> >>
              /\ raw_event_epoch_durations[2] = <<>>
              /\ event_epoch_labels = << <<>>, <<>> >>
              /\ DOMAIN info = {"header_id", "format_ver", "t_start", "sampling_period"}
C11_Witness ==
    /\ Parsed
    /\ format_ver = 2
    /\ n_cols = 3
    /\ Len(raw_signals[1]) = 2
    /\ raw_event_epoch_timestamps = << <<>>, <<>> >>

\* C12: redundant episode counts that differ from the first never end the
\* parse: n_episodes, as recorded, as checked by the heuristic and as the
\* segment count of a reshaped file, is the first count read whatever the
\* others are, and every array is read at the length of its own count (three
\* arrays, four in format version 5).
C12_PrimaryCountGoverns ==
    episode_counts # <<>> =>
        /\ pc # "failed"
        /\ Len(episode_counts) = (IF format_ver = 5 THEN 4 ELSE 3)
        /\ Len(episode_arrays) = Len(episode_counts)
        /\ \A k \in 1..Len(episode_counts) :
              Len(episode_arrays[k]) = episode_counts[k]
        /\ n_episodes = episode_counts[1]
        /\ Organized => info.n_episodes = episode_counts[1]
        /\ Accepted =>
              \A g \in DOMAIN info.group_header_info_list :
                  Len(ColIndexes(info.trace_header_info_list, g)) = episode_counts[1]
        /\ Converted => header.nb_segment = <<episode_counts[1]>>
C12_Witness ==
    /\ Parsed
    /\ format_ver = 5
    /\ episode_counts = <<2, 0, 1, 0>>
    /\ header.nb_segment = <<2>>

\* C13: below format version 6 no header version is read from the stream and
\* every trace header and group header has version 1; from format version 6
\* on one version is read per trace header, then one per group header, and
\* it is the header's version; a version read that is not 1 or 2 (trace) or
\* not 1 (group) ends the parse at once (NotImplementedError).
C13_SchemaVersions ==
    /\ format_ver < 6 =>
          /\ schema_versions_read = <<>>
          /\ \A t \in 1..Len(trace_header_info_list) :
                trace_header_info_list[t].trace_header_version = 1
          /\ \A g \in DOMAIN group_header_info_list :
                group_header_info_list[g].group_header_version = 1
    /\ format_ver >= 6 =>
          /\ \A t \in 1..Len(trace_header_info_list) :
                /\ t <= Len(schema_versions_read)
                /\ trace_header_info_list[t].trace_header_version = schema_versions_read[t]
          /\ \A k \in 1..Cardinality(DOMAIN group_header_info_list) :
                /\ n_traces + k <= Len(schema_versions_read)
                /\ group_header_info_list[group_ids[k]].group_header_version
                       = schema_versions_read[n_traces + k]
          /\ \A k \in 1..Len(schema_versions_read) :
                (IF k <= n_traces
                 THEN schema_versions_read[k] \notin {1, 2}
                 ELSE schema_versions_read[k] # 1) =>
                    /\ pc = "failed" /\ error = "NotImplementedError"
                    /\ k = Len(schema_versions_read)
                    /\ NothingExposed
          /\ Len(schema_versions_read) <=
                Len(trace_header_info_list) + Cardinality(DOMAIN group_header_info_list) + 1
          /\ (pc # "failed" \/ error # "NotImplementedError" \/ i < n_cols) =>
                Len(schema_versions_read) =
                    Len(trace_header_info_list) + Cardinality(DOMAIN group_header_info_list)
C13_Witness ==
    /\ Parsed
    /\ format_ver = 6
    /\ schema_versions_read = <<2, 1>>
    /\ info.trace_header_info_list[1].trace_header_version = 2

\* the n smallest elements of a set of integers
Smallest(S, n) == {x \in S : Cardinality({y \in S : y < x}) < n}

\* C14: in a file of version 3 or more the group headers are decoded for the
\* group ids of the trace headers, one per distinct id, smallest id first:
\* once the groups are read the ids with a header are exactly the ids the
\* traces name; a group count that is not the number of distinct ids ends
\* the parse (AssertionError) before any group header is read.
C14_GroupIdsAreTraceGroupIds ==
    (format_ver >= 3 /\ Len(trace_header_info_list) = n_traces
       /\ pc \notin {"magic", "version", "columns", "traces"}) =>
        LET ids == TraceGroupIds(trace_header_info_list)
        IN  IF n_groups # Cardinality(ids)
            THEN /\ pc = "failed" /\ error = "AssertionError"
                 /\ DOMAIN group_header_info_list = {}
                 /\ NothingExposed
            ELSE /\ DOMAIN group_header_info_list =
                        Smallest(ids, Cardinality(DOMAIN group_header_info_list))
                 /\ pc # "groups" => DOMAIN group_header_info_list = ids
                 /\ Organized => DOMAIN info.group_header_info_list = ids
C14_Witness ==
    /\ Parsed
    /\ n_traces = 3
    /\ trace_header_info_list[1].group_id_for_this_trace = 1
    /\ trace_header_info_list[2].group_id_for_this_trace = 0
    /\ DOMAIN info.group_header_info_list = {0, 1}

----------------------------------------------------------------------------
(* Properties of the accessors.                                            *)

\* C15: _get_analogsignal_chunk, for block 0, a segment of the file, a
\* range of samples and a selection of channels of the table, returns a 2-D
\* array, samples by channels, of the raw items of the selected columns in
\* the order of the selection; no selection (None or a full slice) selects
\* every channel in the order of the table; another block raises
\* AssertionError.
C15_ChunkIsSamplesByChannels ==
    call.op = "_get_analogsignal_chunk" =>
        IF call.block_index # 0
        THEN result = Raised("AssertionError")
        ELSE call.seg_index < Len(raw_signals) =>
             LET segment == raw_signals[call.seg_index + 1]
                 idx == IF call.channel_indexes.kind = "list"
                        THEN call.channel_indexes.idx
                        ELSE [j \in 1..Len(header.signal_channels) |-> j - 1]
             IN  (\A j \in 1..Len(idx) : idx[j] < Len(segment)) =>
                    /\ "raised" \notin DOMAIN result
                    /\ result.ndim = 2
                    /\ Len(result.shape) = 2
                    /\ result.shape[2] = Len(idx)
                    /\ \A j \in 1..Len(idx) :
                          result.shape[1] =
                              Min(call.i_stop, segment[idx[j] + 1].shape)
                                - Min(call.i_start, segment[idx[j] + 1].shape)
                          \/ (call.i_stop < call.i_start /\ result.shape[1] = 0)
                    /\ \A k \in 1..result.shape[1], j \in 1..Len(idx) :
                          result.at[k][j] =
                              [col |-> segment[idx[j] + 1].col,
                               at  |-> call.i_start + k - 1]

RatEq(a, b) == a.num * b.den = b.num * a.den
Numbers(raw, dtype) ==
    [k \in 1..Len(raw) |->
        IF dtype = "float64" THEN raw[k] ELSE [num |-> Truncated(raw[k]), den |-> 1]]

\* C16: _rescale_event_timestamp and _rescale_epoch_duration return the raw
\* values, as numbers of the requested type, times the sampling period; the
\* start time of the recording is not added.  As floats the results are the
\* times of the events, the start times of the epochs and the lengths of the
\* epochs, in seconds, that were decoded from the file.
C16_RescaleMultipliesByPeriod ==
    /\ call.op \in {"_rescale_event_timestamp", "_rescale_epoch_duration"} =>
          LET raw == IF call.op = "_rescale_event_timestamp"
                     THEN call.event_timestamps ELSE call.raw_duration
          IN  /\ Len(result) = Len(raw)
              /\ \A k \in 1..Len(raw) :
                    RatEq(result[k],
                          [num |-> Numbers(raw, call.dtype)[k].num * info.sampling_period,
                           den |-> Numbers(raw, call.dtype)[k].den])
    /\ (call.op = "_rescale_event_timestamp" /\ call.dtype = "float64") =>
          /\ call.event_timestamps = raw_event_epoch_timestamps[1] =>
                \A k \in 1..Len(result) :
                    RatEq(result[k], [num |-> info.event_list[k].time, den |-> 1])
          /\ call.event_timestamps = raw_event_epoch_timestamps[2] =>
                \A k \in 1..Len(result) :
                    RatEq(result[k], [num |-> info.epoch_list[k].t_start, den |-> 1])
    /\ (call.op = "_rescale_epoch_duration" /\ call.dtype = "float64") =>
          \A k \in 1..Len(result) :
              RatEq(result[k], [num |-> info.epoch_list[k].t_stop
                                          - info.epoch_list[k].t_start, den |-> 1])
C16_Witness ==
    /\ call.op = "_rescale_event_timestamp"
    /\ call.dtype = "float64"
    /\ info.t_start = 5
    /\ info.sampling_period = 2
    /\ Len(call.event_timestamps) = 2
    /\ call.event_timestamps[2] = [num |-> 3, den |-> 1]
    /\ result[2] = [num |-> 6, den |-> 1]

IsInteger(q) == q.num % q.den = 0

\* C17: the raw timestamps and the raw durations that are stored, and that
\* _get_event_timestamps returns, are integers (numbers of samples) for
\* every event and every epoch.
C17_RawValuesAreSampleIndexes ==
    /\ Organized =>
          /\ \A c \in 1..2 : \A k \in 1..Len(raw_event_epoch_timestamps[c]) :
                IsInteger(raw_event_epoch_timestamps[c][k])
          /\ \A k \in 1..Len(raw_event_epoch_durations[2]) :
                IsInteger(raw_event_epoch_durations[2][k])
    /\ call.op = "_get_event_timestamps" =>
          \A k \in 1..Len(result.timestamps) : IsInteger(result.timestamps[k])

\* C17 as the code has it: the raw timestamp of an event is the integer
\* index read from the file; the raw timestamp and the raw duration of an
\* epoch are its start and its length in seconds divided by the sampling
\* period, integers or not; _get_event_timestamps returns the stored arrays
\* of the channel, with no durations for the events.
C17_RawValuesAreQuotients ==
    /\ (Organized /\ ~LegacyFile) =>
          /\ Len(raw_event_epoch_timestamps[1]) = Len(info.event_list)
          /\ \A k \in 1..Len(info.event_list) :
                /\ raw_event_epoch_timestamps[1][k].den = 1
                /\ raw_event_epoch_timestamps[1][k].num * info.sampling_period
                       = info.event_list[k].time
          /\ Len(raw_event_epoch_timestamps[2]) = Len(info.epoch_list)
          /\ Len(raw_event_epoch_durations[2]) = Len(info.epoch_list)
          /\ \A k \in 1..Len(info.epoch_list) :
                /\ raw_event_epoch_timestamps[2][k].den > 0
                /\ raw_event_epoch_timestamps[2][k].num * info.sampling_period
                       = info.epoch_list[k].t_start * raw_event_epoch_timestamps[2][k].den
                /\ raw_event_epoch_durations[2][k].den > 0
                /\ raw_event_epoch_durations[2][k].num * info.sampling_period
                       = (info.epoch_list[k].t_stop - info.epoch_list[k].t_start)
                            * raw_event_epoch_durations[2][k].den
    /\ Organized => raw_event_epoch_durations[1] = None
    /\ call.op = "_get_event_timestamps" =>
          /\ result.timestamps = raw_event_epoch_timestamps[call.event_channel_index + 1]
          /\ result.durations = raw_event_epoch_durations[call.event_channel_index + 1]
          /\ result.labels = event_epoch_labels[call.event_channel_index + 1]
C17_Witness ==
    /\ call.op = "_get_event_timestamps"
    /\ call.event_channel_index = 1
    /\ info.sampling_period = 2
    /\ Len(result.timestamps) = 2
    /\ result.timestamps[2] = [num |-> 1, den |-> 2]
    /\ result.durations[2] = [num |-> 3, den |-> 2]
    /\ Len(raw_event_epoch_timestamps[1]) = 1
    /\ raw_event_epoch_timestamps[1][1] = [num |-> 3, den |-> 1]

\* C18: the sampling period of a parsed file is positive.
C18_SamplingPeriodPositive ==
    Parsed => (self_time[2] > 0 /\ info.sampling_period > 0)

\* C19: a column with a point count of 0 is decoded without an error
\* whatever the version and wherever the column is, column 0 included: the
\* stream advances by no byte of data and the array kept for the column is
\* empty.
C19_EmptyColumnIsLegal ==
    \A k \in 1..Len(columns) :
        columns[k].n_points = 0 =>
            /\ columns[k].nbytes = 0
            /\ ~(pc = "failed" /\ error = "IndexError"
                   /\ k = Len(columns) /\ i = k - 1)
            /\ \A m \in 1..Len(sigs_memmap) :
                  sigs_memmap[m].col = k - 1 => sigs_memmap[m].shape = 0

----------------------------------------------------------------------------
(* Properties of StructFile.                                               *)

TruncatedFields == {k \in 1..Len(data) : data[k].used < data[k].declared}

----------------------------------------------------------------------------
(* Properties of force_single_segment.                                     *)

\* C23: of an object constructed with force_single_segment=True the
\* heuristic is never evaluated and the reshape never runs; every file that
\* parses has one segment, which holds the arrays of all the decoded
\* channels in column order, and the channel table is the decoded table,
\* the files that pass the four checks of the heuristic included.
C23_ForcedSingleSegment ==
    force_single_segment =>
        /\ log = ""
        /\ pc # "convert"
        /\ (pc \in {"heuristic", "annotate", "done"}) =>
              /\ header.nb_block = 1
              /\ header.nb_segment = <<1>>
              /\ header.signal_channels = sig_channels
              /\ raw_signals = <<sigs_memmap>>
              /\ \A j \in 1..Len(sig_channels) :
                    /\ sigs_memmap[j].col = sig_channels[j].id
                    /\ \A k \in 1..Len(sig_channels) :
                          j < k => sig_channels[j].id < sig_channels[k].id
        /\ pc = "failed" => DOMAIN info = {}
C23_Witness ==
    /\ Parsed
    /\ force_single_segment
    /\ C1_Check1 /\ C1_Check2 /\ C1_Check3 /\ C1_Check4
    /\ info.n_episodes = 2
    /\ Len(raw_signals) = 1
    /\ Len(raw_signals[1]) = 2

----------------------------------------------------------------------------
(* Properties of the object after _parse_header.                           *)

\* C21: once _parse_header has completed, no call of an accessor, whatever
\* came before it, changes the header, the start time, the sampling period,
\* the lists of raw arrays of the segments or anything else that was
\* decoded, and the parse stays completed; values of the header are
\* replaced by the reshape alone, in a step of _parse_header that is not
\* taken again.
C21_AccessorsChangeNothing ==
    [][/\ pc = "done" =>
            /\ pc' = "done"
            /\ error' = error
            /\ header' = header
            /\ self_time' = self_time
            /\ raw_signals' = raw_signals
            /\ info' = info
            /\ raw_event_epoch_timestamps' = raw_event_epoch_timestamps
            /\ raw_event_epoch_durations' = raw_event_epoch_durations
            /\ event_epoch_labels' = event_epoch_labels
       /\ (header' # header /\ DOMAIN header # {}) =>
            /\ pc = "convert"
            /\ pc' = "annotate"
            /\ header.nb_segment = <<1>>
       /\ (self_time' # self_time \/ raw_signals' # raw_signals) =>
            pc \in {"organize", "convert"}
       /\ pc \in {"annotate", "done"} => pc' \in {"annotate", "done"}
      ]_vars
C21_Witness ==
    /\ pc = "done"
    /\ call.op = "_segment_t_stop"
    /\ result = Returned(9)
    /\ self_time = <<5, 2>>
    /\ header.nb_segment = <<2>>
    /\ Len(raw_signals) = 2

\* what every accessor of signals and events returns, for every argument
Answers ==
    [t_start    |-> self_time[1],
     t_stop     |-> [s \in AccessCalls.segments |-> SegmentTStopOf(s)],
     size       |-> [s \in AccessCalls.segments |-> SignalSize(s)],
     chunk      |-> [a \in AccessCalls.blocks \X AccessCalls.segments
                          \X AccessCalls.samples \X AccessCalls.samples
                          \X AccessCalls.selections |->
                        AnalogsignalChunk(a[1], a[2], a[3], a[4], a[5])],
     count      |-> [c \in AccessCalls.event_channels |-> EventCountOf(c)],
     events     |-> <<raw_event_epoch_timestamps, raw_event_epoch_durations,
                      event_epoch_labels>>,
     times      |-> [c \in AccessCalls.event_channels, t \in AccessCalls.dtypes |->
                        Rescaled(raw_event_epoch_timestamps[c + 1], t, self_time)],
     durations  |-> [t \in AccessCalls.dtypes |->
                        Rescaled(raw_event_epoch_durations[2], t, self_time)]]

\* C22: every operation on spikes or units raises NotImplementedError
\* whatever its arguments; the parse stays completed without an error, the
\* decoded state is as before the call, and every accessor of signals and
\* events returns for every argument what it returned before.
C22_SpikeCallsOnlyRaise ==
    [][(call'.op \in SpikeOps) =>
            /\ result' = Raised("NotImplementedError")
            /\ pc = "done" /\ pc' = "done"
            /\ error' = error /\ error = ""
            /\ header' = header /\ info' = info
            /\ Answers' = Answers
      ]_vars
C22_Witness ==
    /\ pc = "done"
    /\ call.op = "_get_spike_timestamps"
    /\ call.unit_index = 1
    /\ result = Raised("NotImplementedError")
    /\ Len(raw_signals) = 2
    /\ EventCountOf(0) = Returned(1)

\* C24: in a parsed file every channel of a segment has the sample count
\* that _get_signal_size reports for the segment, which is that of the
\* first channel of the segment whatever channels are asked for, and
\* _segment_t_stop is the start time plus that count times the sampling
\* period.
C24_OneSizePerSegment ==
    Parsed =>
        /\ \A seg \in 1..Len(raw_signals) : \A ch \in 1..Len(raw_signals[seg]) :
              raw_signals[seg][ch].shape = SignalSize(seg - 1).value
        /\ (call.op = "_get_signal_size" /\ HasFirstChannel(call.seg_index)) =>
              result = Returned(raw_signals[call.seg_index + 1][1].shape)
        /\ (call.op = "_segment_t_stop" /\ HasFirstChannel(call.seg_index)) =>
              result = Returned(self_time[1]
                         + raw_signals[call.seg_index + 1][1].shape * self_time[2])

\* C25: for both annotation channels of a parsed file the timestamps and
\* the labels that _get_event_timestamps returns are as many as _event_count
\* reports, and so are the durations of the epoch channel, whatever the
\* three event counts of the file are.
C25_AnnotationArraysAgree ==
    Parsed =>
        /\ \A c \in {0, 1} :
              /\ Len(raw_event_epoch_timestamps[c + 1]) = EventCountOf(c).value
              /\ Len(event_epoch_labels[c + 1]) = EventCountOf(c).value
        /\ Len(raw_event_epoch_durations[2]) = EventCountOf(1).value
        /\ call.op = "_get_event_timestamps" =>
              /\ Len(result.timestamps) = Len(result.labels)
              /\ call.event_channel_index = 1 =>
                    Len(result.durations) = Len(result.timestamps)

====
